---- MODULE Spec2Model ----
(***************************************************************************)
(* A model of personal-graph's storage core:                               *)
(*   src/src/simple_graph_sqlite/database.py   the atomic wrapper and the  *)
(*       node/edge store built on it;                                      *)
(*   src/personal_graph/persistence_layer/vector_store/sqlitevss/          *)
(*       sqlitevss.py                          the embedding search layer. *)
(* The SQL statement files the code executes (sql/*.sql and                *)
(* embeddings-raw-queries/*.sql) are not part of the sources at hand; the  *)
(* operators whose names end in Sql model them from the specification's    *)
(* backend schema and operation descriptions.                              *)
(***************************************************************************)
EXTENDS Integers, Sequences, FiniteSets, TLC

VARIABLES
    nodes,                  \* table nodes: rows [id, body], body a JSON text
    edges,                  \* table edges: rows [source, target, properties]
    nodes_embedding,        \* table nodes_embedding: rows [rowid, owner, vector]
    relationship_embedding, \* table relationship_embedding: same shape
    last,                   \* the call that was made last: its name, arguments and outcome
    assigned,               \* per embedding table, the sequence ids its inserts were given
    inflight                \* per concurrent caller, the unit of work it is in the middle of

vars == <<nodes, edges, nodes_embedding, relationship_embedding, last, assigned, inflight>>

----------------------------------------------------------------------------
(* Bounds of the model.                                                    *)

MaxId == 2          \* node identifiers are 1..MaxId
MaxBatch == 2       \* longest batch handed to a batched operation
MaxEdges == 2       \* most edge rows the edge table holds

\* Python's None, for an identifier that was not given
None == 0

Ids == 1..MaxId
IdArgs == Ids \cup {None}

----------------------------------------------------------------------------
(* Python dicts are functions from keys to values.                         *)

EmptyDict == [k \in {} |-> 0]

Put(d, k, v) == [x \in DOMAIN d \cup {k} |-> IF x = k THEN v ELSE d[x]]

\* {**current_data, **data}
Merge(current_data, data) ==
    [k \in DOMAIN current_data \cup DOMAIN data |->
        IF k \in DOMAIN data THEN data[k] ELSE current_data[k]]

(* json.dumps writes a mapping as a text: here the sequence of its         *)
(* <<key, value>> members. json.loads reads a text back; of two members    *)
(* with one key the later one wins.                                        *)
KeyOrder == <<"id", "a", "b">>

json_dumps(d) ==
    LET F[i \in 0..Len(KeyOrder)] ==
            IF i = 0 THEN <<>>
            ELSE IF KeyOrder[i] \in DOMAIN d
                 THEN Append(F[i - 1], <<KeyOrder[i], d[KeyOrder[i]]>>)
                 ELSE F[i - 1]
    IN  F[Len(KeyOrder)]

json_loads(s) ==
    [k \in {s[i][1] : i \in DOMAIN s} |->
        s[CHOOSE i \in DOMAIN s :
            /\ s[i][1] = k
            /\ \A j \in DOMAIN s : s[j][1] = k => j <= i][2]]

----------------------------------------------------------------------------
(* A cursor works on the connection's view of the database, db = [nodes,   *)
(* edges]. A unit of work, run on db, yields an outcome:                   *)
(*   db      the connection's view after the statements that were executed *)
(*   raised  whether the unit of work ended in an exception                *)
(*   ret     what it returned                                              *)
(*   writes  how many rows its statements had written by then              *)

Outcome(db, raised, ret, writes) ==
    [db |-> db, raised |-> raised, ret |-> ret, writes |-> writes]

DB == [nodes |-> nodes, edges |-> edges]

NodeIds(db) == {r.id : r \in db.nodes}

(* insert-node.sql: INSERT INTO nodes VALUES (json(?)). The id column is   *)
(* the body's id member and is the table's primary key: a body without an  *)
(* id, or with the id of a stored row, is refused.                         *)
InsertNodeSql(db, body) ==
    LET d == json_loads(body) IN
    IF "id" \notin DOMAIN d \/ d["id"] \in NodeIds(db)
    THEN Outcome(db, TRUE, None, 0)
    ELSE Outcome([db EXCEPT !.nodes = @ \cup {[id |-> d["id"], body |-> body]}],
                 FALSE, None, 1)

(* search-node.template with the id_lookup clause:                         *)
(* SELECT body FROM nodes WHERE id = ?, and fetchone(): the rows found.    *)
SelectBodySql(db, identifier) ==
    {r.body : r \in {x \in db.nodes : x.id = identifier}}

(* update-node.sql: UPDATE nodes SET body = json(?) WHERE id = ?           *)
UpdateNodeSql(db, body, identifier) ==
    Outcome([db EXCEPT !.nodes =
                {IF r.id = identifier THEN [r EXCEPT !.body = body] ELSE r : r \in @}],
            FALSE, None, Cardinality({r \in db.nodes : r.id = identifier}))

----------------------------------------------------------------------------
(* database.py                                                             *)

\* An atomic that commits in its finally block: also when the unit of work raised
atomic_commit_always(db, out) ==
    [db |-> out.db, raised |-> out.raised, ret |-> IF out.raised THEN None ELSE out.ret]

\* An atomic that catches the exception of the unit of work and returns
atomic_swallow(db, out) ==
    [db |-> IF out.raised THEN db ELSE out.db,
     raised |-> FALSE,
     ret |-> IF out.raised THEN None ELSE out.ret]

(* atomic: connect, run the unit of work on the connection, commit when it *)
(* returned. When it raised, nothing is committed and the exception leaves *)
(* atomic (try/finally without except); the connection is dropped with its *)
(* uncommitted statements.                                                 *)
atomic(db, out) ==
    [db |-> IF out.raised THEN db ELSE out.db,
     raised |-> out.raised,
     ret |-> IF out.raised THEN None ELSE out.ret]

\* A _set_id that leaves the data as it was given
set_id_keep(identifier, data) == data

set_id(identifier, data) ==
    IF identifier # None THEN Put(data, "id", identifier) ELSE data

insert_node(db, identifier, data) ==
    InsertNodeSql(db, json_dumps(set_id(identifier, data)))

add_node(db, data, identifier) == insert_node(db, identifier, data)

\* A find_node that parses the row without looking whether there is one
find_node_raise(db, identifier) ==
    LET result == SelectBodySql(db, identifier) IN
    IF result = {} THEN Outcome(db, TRUE, None, 0)
    ELSE Outcome(db, FALSE, json_loads(CHOOSE b \in result : TRUE), 0)

find_node(db, identifier) ==
    LET result == SelectBodySql(db, identifier) IN
    IF result = {} THEN Outcome(db, FALSE, EmptyDict, 0)
    ELSE Outcome(db, FALSE, json_loads(CHOOSE b \in result : TRUE), 0)

\* The merge the other way round: the stored members win over the new ones
upsert_merge_old_wins(current_data, data) == Merge(data, current_data)

\* updated_data = {**current_data, **data}
upsert_merge(current_data, data) == Merge(current_data, data)

\* An _upsert_node that updates with the merged data as it is, no _set_id
upsert_node_unmirrored(db, identifier, data) ==
    LET found == SelectBodySql(db, identifier) IN
    IF found = {}
    THEN InsertNodeSql(db, json_dumps(set_id(identifier, data)))
    ELSE UpdateNodeSql(db,
                       json_dumps(Merge(json_loads(CHOOSE b \in found : TRUE), data)),
                       identifier)

\* _upsert_node: look the record up, insert when there is none, else merge and update
upsert_node(db, identifier, data) ==
    LET found == find_node(db, identifier)
        current_data == found.ret
    IN  IF found.raised THEN Outcome(db, TRUE, None, 0)
        ELSE IF current_data = EmptyDict
        THEN insert_node(db, identifier, data)
        ELSE UpdateNodeSql(db,
                           json_dumps(set_id(identifier, upsert_merge(current_data, data))),
                           identifier)

\* zip(ids, nodes): pairs up to the shorter of the two lists
Zip(ids, data_list) ==
    LET n == IF Len(ids) <= Len(data_list) THEN Len(ids) ELSE Len(data_list)
    IN  [i \in 1..n |-> <<ids[i], data_list[i]>>]

(* cursor.executemany(insert-node.sql, bodies): one insert per body, in    *)
(* order; the first one that is refused raises and ends it.                *)
RECURSIVE executemany_insert(_, _)
executemany_insert(db, bodies) ==
    IF bodies = <<>> THEN Outcome(db, FALSE, None, 0)
    ELSE LET o == InsertNodeSql(db, Head(bodies)) IN
         IF o.raised THEN o
         ELSE LET rest == executemany_insert(o.db, Tail(bodies))
              IN  [rest EXCEPT !.writes = @ + o.writes]

\* add_nodes: the bodies are serialized first, then inserted by one executemany
add_nodes(db, data_list, ids) ==
    LET pairs == Zip(ids, data_list) IN
    executemany_insert(db,
        [i \in DOMAIN pairs |-> json_dumps(set_id(pairs[i][1], pairs[i][2]))])

\* upsert_nodes: for id, node in zip(ids, nodes): _upsert_node(cursor, id, node)
RECURSIVE upsert_pairs(_, _)
upsert_pairs(db, pairs) ==
    IF pairs = <<>> THEN Outcome(db, FALSE, None, 0)
    ELSE LET o == upsert_node(db, Head(pairs)[1], Head(pairs)[2]) IN
         IF o.raised THEN o
         ELSE LET rest == upsert_pairs(o.db, Tail(pairs))
              IN  [rest EXCEPT !.writes = @ + o.writes]

\* An upsert_nodes that takes the pairs from the last one to the first
upsert_nodes_backwards(db, data_list, ids) ==
    LET pairs == Zip(ids, data_list)
    IN  upsert_pairs(db, [i \in DOMAIN pairs |-> pairs[Len(pairs) + 1 - i]])

upsert_nodes(db, data_list, ids) == upsert_pairs(db, Zip(ids, data_list))

(* insert-edge.sql: INSERT INTO edges VALUES (?, ?, json(?)). The edge     *)
(* table keeps one row per (source, target, properties); the endpoints are *)
(* not looked up.                                                          *)
InsertEdgeSql(db, source_id, target_id, properties) ==
    Outcome([db EXCEPT !.edges = @ \cup {[source |-> source_id,
                                          target |-> target_id,
                                          properties |-> properties]}],
            FALSE, None, 1)

\* A connect_nodes that looks both endpoints up and raises when one is missing
connect_nodes_endpoints_checked(db, source_id, target_id, properties) ==
    IF {source_id, target_id} \subseteq NodeIds(db)
    THEN InsertEdgeSql(db, source_id, target_id, json_dumps(properties))
    ELSE Outcome(db, TRUE, None, 0)

connect_nodes(db, source_id, target_id, properties) ==
    InsertEdgeSql(db, source_id, target_id, json_dumps(properties))

\* zip(sources, targets, properties): triples up to the shortest of the three lists
Zip3(sources, targets, properties) ==
    LET m == IF Len(sources) <= Len(targets) THEN Len(sources) ELSE Len(targets)
        n == IF m <= Len(properties) THEN m ELSE Len(properties)
    IN  [i \in 1..n |-> <<sources[i], targets[i], properties[i]>>]

\* cursor.executemany(insert-edge.sql, rows): one insert per row, in order
RECURSIVE executemany_insert_edge(_, _)
executemany_insert_edge(db, rows) ==
    IF rows = <<>> THEN Outcome(db, FALSE, None, 0)
    ELSE LET x == Head(rows)
             o == InsertEdgeSql(db, x[1], x[2], x[3])
         IN  IF o.raised THEN o
             ELSE LET rest == executemany_insert_edge(o.db, Tail(rows))
                  IN  [rest EXCEPT !.writes = @ + o.writes]

\* connect_many_nodes: the properties are serialized first, then one executemany
connect_many_nodes(db, sources, targets, properties) ==
    LET rows == Zip3(sources, targets, properties) IN
    executemany_insert_edge(db,
        [i \in DOMAIN rows |-> <<rows[i][1], rows[i][2], json_dumps(rows[i][3])>>])

\* delete-edge.sql: DELETE FROM edges WHERE source = ? OR target = ?
DeleteEdgeSql(db, source_id, target_id) ==
    LET gone == {e \in db.edges : e.source = source_id \/ e.target = target_id}
    IN  Outcome([db EXCEPT !.edges = @ \ gone], FALSE, None, Cardinality(gone))

\* delete-node.sql: DELETE FROM nodes WHERE id = ?
DeleteNodeSql(db, identifier) ==
    LET gone == {r \in db.nodes : r.id = identifier}
    IN  Outcome([db EXCEPT !.nodes = @ \ gone], FALSE, None, Cardinality(gone))

\* A removal that deletes the edges leaving the node and keeps those entering it
remove_node_outbound_only(db, identifier) ==
    LET e == DeleteEdgeSql(db, identifier, None)
        n == DeleteNodeSql(e.db, identifier)
    IN  [n EXCEPT !.writes = @ + e.writes]

\* A removal that takes the nodes at the other end of the node's edges along
remove_node_with_neighbours(db, identifier) ==
    LET touching == {x \in db.edges : x.source = identifier \/ x.target = identifier}
        gone == {identifier} \cup {x.source : x \in touching} \cup {x.target : x \in touching}
    IN  Outcome([nodes |-> {r \in db.nodes : r.id \notin gone},
                 edges |-> db.edges \ touching],
                FALSE, None,
                Cardinality(touching) + Cardinality({r \in db.nodes : r.id \in gone}))

\* remove_node: the node's edges first, then the node
remove_node(db, identifier) ==
    LET e == DeleteEdgeSql(db, identifier, identifier)
        n == DeleteNodeSql(e.db, identifier)
    IN  [n EXCEPT !.writes = @ + e.writes]

RECURSIVE executemany_delete_edge(_, _)
executemany_delete_edge(db, identifiers) ==
    IF identifiers = <<>> THEN Outcome(db, FALSE, None, 0)
    ELSE LET o == DeleteEdgeSql(db, Head(identifiers), Head(identifiers))
             rest == executemany_delete_edge(o.db, Tail(identifiers))
         IN  [rest EXCEPT !.writes = @ + o.writes]

RECURSIVE executemany_delete_node(_, _)
executemany_delete_node(db, identifiers) ==
    IF identifiers = <<>> THEN Outcome(db, FALSE, None, 0)
    ELSE LET o == DeleteNodeSql(db, Head(identifiers))
             rest == executemany_delete_node(o.db, Tail(identifiers))
         IN  [rest EXCEPT !.writes = @ + o.writes]

\* remove_nodes: every identifier's edges by one executemany, then the nodes by another
remove_nodes(db, identifiers) ==
    LET e == executemany_delete_edge(db, identifiers)
        n == executemany_delete_node(e.db, identifiers)
    IN  [n EXCEPT !.writes = @ + e.writes]

\* search-edges.sql: SELECT * FROM edges WHERE source = ? OR target = ?
SearchEdgesSql(db, source_id, target_id) ==
    {e \in db.edges : e.source = source_id \/ e.target = target_id}

get_connections(db, identifier) ==
    Outcome(db, FALSE, SearchEdgesSql(db, identifier, identifier), 0)

----------------------------------------------------------------------------
(* The calls. Each one hands its unit of work to atomic, takes over what   *)
(* atomic committed and records the call in last.                          *)

\* Attribute mappings handed to the single-node operations
Datas ==
    {EmptyDict, [a |-> 1], [a |-> 3], [b |-> 2], [a |-> 1, b |-> 2],
     [a |-> 3, b |-> 2], [id |-> MaxId, a |-> 1]}

\* Attribute mappings of the elements of a batch
BatchDatas == {[a |-> 1]}

\* Attribute mappings of the nodes of the graph whose edges are followed
GraphDatas == {[a |-> 1]}

SeqsUpTo(S, n) == UNION {[1..k -> S] : k \in 0..n}

\* A call whose commit takes the embedding rows of the nodes it removed along
Call_embeddings_follow(op, args, out) ==
    LET res == atomic(DB, out) IN
    /\ nodes' = res.db.nodes
    /\ edges' = res.db.edges
    /\ last' = [op |-> op, args |-> args, failed |-> out.raised, writes |-> out.writes,
                raised |-> res.raised, ret |-> res.ret]
    /\ nodes_embedding' =
           {r \in nodes_embedding : r.owner \notin NodeIds(DB) \ NodeIds(res.db)}
    /\ UNCHANGED <<relationship_embedding, assigned, inflight>>

Call(op, args, out) ==
    LET res == atomic(DB, out) IN
    /\ nodes' = res.db.nodes
    /\ edges' = res.db.edges
    /\ last' = [op |-> op, args |-> args,
                failed |-> out.raised,   \* the unit of work raised
                writes |-> out.writes,   \* rows it had written by then
                raised |-> res.raised,   \* the call raised
                ret |-> res.ret]
    /\ UNCHANGED <<nodes_embedding, relationship_embedding, assigned, inflight>>

AddNode(data, identifier) ==
    Call("add_node", [data |-> data, id |-> identifier], add_node(DB, data, identifier))

UpsertNode(identifier, data) ==
    Call("upsert_node", [data |-> data, id |-> identifier],
         upsert_node(DB, identifier, data))

FindNode(identifier) ==
    Call("find_node", [id |-> identifier], find_node(DB, identifier))

RemoveNode(identifier) ==
    Call("remove_node", [id |-> identifier], remove_node(DB, identifier))

AddNodes(data_list, ids) ==
    Call("add_nodes", [data_list |-> data_list, ids |-> ids],
         add_nodes(DB, data_list, ids))

UpsertNodes(data_list, ids) ==
    Call("upsert_nodes", [data_list |-> data_list, ids |-> ids],
         upsert_nodes(DB, data_list, ids))

ConnectNodes(source_id, target_id, properties) ==
    LET out == connect_nodes(DB, source_id, target_id, properties) IN
    /\ Cardinality(out.db.edges) <= MaxEdges
    /\ Call("connect_nodes", [source |-> source_id, target |-> target_id], out)

ConnectManyNodes(sources, targets, properties) ==
    LET out == connect_many_nodes(DB, sources, targets, properties) IN
    /\ Cardinality(out.db.edges) <= MaxEdges
    /\ Call("connect_many_nodes", [sources |-> sources, targets |-> targets], out)

RemoveNodes(identifiers) ==
    Call("remove_nodes", [ids |-> identifiers], remove_nodes(DB, identifiers))

GetConnections(identifier) ==
    Call("get_connections", [id |-> identifier], get_connections(DB, identifier))

\* The callers that run units of work side by side, and one that runs none
Callers == {"first", "second"}
Idle == [pc |-> "idle", args |-> <<>>, read |-> None]

Init ==
    /\ nodes = {}
    /\ edges = {}
    /\ nodes_embedding = {}
    /\ relationship_embedding = {}
    /\ last = [op |-> "initialize", args |-> <<>>, failed |-> FALSE, writes |-> 0,
               raised |-> FALSE, ret |-> None]
    /\ assigned = [nodes_embedding |-> {}, relationship_embedding |-> {}]
    /\ inflight = [caller \in Callers |-> Idle]

(* Spec: the single-node operations of the store.                          *)
Next ==
    \/ \E data \in Datas, identifier \in IdArgs : AddNode(data, identifier)
    \/ \E data \in Datas, identifier \in IdArgs : UpsertNode(identifier, data)
    \/ \E identifier \in IdArgs : FindNode(identifier)
    \/ \E identifier \in Ids : RemoveNode(identifier)

Spec == Init /\ [][Next]_vars

(* SpecBatch: the batched node operations; a batch is a list of            *)
(* (identifier, attributes) pairs, given as the two lists the code zips.   *)
Batches == SeqsUpTo(IdArgs \X BatchDatas, MaxBatch)

BatchIds(batch) == [i \in DOMAIN batch |-> batch[i][1]]
BatchNodes(batch) == [i \in DOMAIN batch |-> batch[i][2]]

NextBatch ==
    \/ \E batch \in Batches : AddNodes(BatchNodes(batch), BatchIds(batch))
    \/ \E batch \in Batches : UpsertNodes(BatchNodes(batch), BatchIds(batch))
    \/ \E data \in BatchDatas, identifier \in Ids : AddNode(data, identifier)
    \/ \E identifier \in Ids : FindNode(identifier)
    \/ \E identifier \in Ids : RemoveNode(identifier)

SpecBatch == Init /\ [][NextBatch]_vars

(* SpecGraph: nodes, the edges between them and their removal.             *)
NextGraph ==
    \/ \E data \in GraphDatas, identifier \in Ids : AddNode(data, identifier)
    \/ \E source_id \in Ids, target_id \in Ids :
          ConnectNodes(source_id, target_id, EmptyDict)
    \/ \E identifier \in Ids : RemoveNode(identifier)
    \/ \E identifiers \in SeqsUpTo(Ids, MaxBatch) : RemoveNodes(identifiers)
    \/ \E identifier \in Ids : GetConnections(identifier)
    \/ \E identifier \in Ids : FindNode(identifier)

SpecGraph == Init /\ [][NextGraph]_vars

(* SpecUpsertBatch: upsert_nodes on batches whose elements share          *)
(* identifiers and keys, and the removal of the node they are about.       *)
UpsertBatchDatas == {[a |-> 1], [b |-> 2], [id |-> 1, a |-> 3]}
UpsertBatches == SeqsUpTo({None, 1} \X UpsertBatchDatas, MaxBatch)

NextUpsertBatch ==
    \/ \E batch \in UpsertBatches : UpsertNodes(BatchNodes(batch), BatchIds(batch))
    \/ RemoveNode(1)

SpecUpsertBatch == Init /\ [][NextUpsertBatch]_vars

(* SpecMirror: every operation that writes nodes, single and batched, on   *)
(* attribute mappings with and without an id of their own.                 *)
MirrorDatas == {[a |-> 1], [id |-> MaxId, a |-> 1]}
MirrorBatches == SeqsUpTo(IdArgs \X {[id |-> MaxId, a |-> 1]}, MaxBatch)

NextMirror ==
    \/ \E data \in MirrorDatas, identifier \in IdArgs : AddNode(data, identifier)
    \/ \E data \in MirrorDatas, identifier \in IdArgs : UpsertNode(identifier, data)
    \/ \E batch \in MirrorBatches : AddNodes(BatchNodes(batch), BatchIds(batch))
    \/ \E batch \in MirrorBatches : UpsertNodes(BatchNodes(batch), BatchIds(batch))
    \/ \E identifier \in Ids : RemoveNode(identifier)
    \/ \E identifiers \in SeqsUpTo(Ids, MaxBatch) : RemoveNodes(identifiers)

SpecMirror == Init /\ [][NextMirror]_vars

----------------------------------------------------------------------------
(* traverse. An identifier is a Python string or a Python integer; the     *)
(* identifiers of one store are of one type, id_type. A Python value is    *)
(* kept as its type and its text, so that equality is Python's ==: values  *)
(* of different types are never equal.                                     *)

IdTypes == {"str", "int"}

PyStr(s) == [py |-> "str", v |-> s]
PyInt(n) == [py |-> "int", v |-> ToString(n)]
PyNull == [py |-> "None", v |-> "None"]

py_eq(x, y) == x.py = y.py /\ x.v = y.v

\* The identifier a caller passes: None, an integer, or the string of its digits
PyId(identifier, id_type) ==
    IF identifier = None THEN PyNull
    ELSE IF id_type = "int" THEN PyInt(identifier)
    ELSE PyStr(ToString(identifier))

(* json.dumps of an identifier: null, the digits of an integer, a string   *)
(* between double quotes.                                                  *)
py_json_dumps(x) ==
    PyStr(IF x.py = "None" THEN "null"
          ELSE IF x.py = "int" THEN x.v
          ELSE "\"" \o x.v \o "\"")

\* The text of a stored body: {"key": value, ...}
RECURSIVE json_members(_)
json_members(s) ==
    IF s = <<>> THEN ""
    ELSE "\"" \o Head(s)[1] \o "\": " \o ToString(Head(s)[2])
         \o (IF Len(s) > 1 THEN ", " ELSE "") \o json_members(Tail(s))

json_text(s) == "{" \o json_members(s) \o "}"

(* The identifier columns hold text: a stored identifier is read back as   *)
(* the string of its characters, an integer as its digits.                 *)
ColumnValue(x) == PyStr(x.v)

\* The body column of the node with an identifier, NULL when there is none
BodyColumn(db, identifier) ==
    IF identifier \in NodeIds(db)
    THEN PyStr(json_text(CHOOSE b \in SelectBodySql(db, identifier) : TRUE))
    ELSE PyNull

(* The terminator marker of a row: "()" on a row with no further nested    *)
(* structure, an arrow otherwise.                                          *)
Markers == {"()", "->"}

\* All the orders in which the members of a set can be listed
Orderings(S) ==
    {f \in [1..Cardinality(S) -> S] : \A i, j \in DOMAIN f : i # j => f[i] # f[j]}

(* The adjacency clauses of a source: one per edge leaving it (the target) *)
(* and one per edge entering it (the source).                              *)
AdjacencyClauses(db, src) ==
    {[identifier |-> e.target, edge |-> e, inbound |-> FALSE] :
         e \in {x \in db.edges : x.source = src}}
    \cup {[identifier |-> e.source, edge |-> e, inbound |-> TRUE] :
         e \in {x \in db.edges : x.target = src}}

(* traverse.template rendered with inbound and outbound: the lists of rows *)
(* fetchall() can hand back, the adjacency clauses of src in any order. A  *)
(* row is (identifier,), or (identifier, body, terminator_marker) with     *)
(* bodies.                                                                 *)
TraverseSql(db, src, with_bodies, id_type) ==
    LET clauses == AdjacencyClauses(db, src)
        n == Cardinality(clauses)
        Ident(c) == ColumnValue(PyId(c.identifier, id_type))
    IN  IF with_bodies
        THEN {[i \in 1..n |-> <<Ident(order[i]), BodyColumn(db, order[i].identifier),
                                PyStr(marks[i])>>] :
                  order \in Orderings(clauses), marks \in [1..n -> Markers]}
        ELSE {[i \in 1..n |-> <<Ident(order[i])>>] : order \in Orderings(clauses)}

\* identifier not in path
InPath(identifier, path) == \E i \in DOMAIN path : py_eq(path[i], identifier)

\* A loop that appends the identifier of every row, visited before or not
RECURSIVE traverse_rows_no_dedup(_, _, _, _)
traverse_rows_no_dedup(rows, target, with_bodies, path) ==
    IF rows = <<>> THEN path
    ELSE LET row == Head(rows)
             appended == Append(path, IF with_bodies THEN row ELSE row[1])
         IN  IF py_eq(row[1], target) /\ (with_bodies => py_eq(row[2], PyStr("()")))
             THEN appended
             ELSE traverse_rows_no_dedup(Tail(rows), target, with_bodies, appended)

(* The loop of _traverse over the rows left, path being what was appended  *)
(* so far; break ends the loop.                                            *)
RECURSIVE traverse_rows(_, _, _, _)
traverse_rows(rows, target, with_bodies, path) ==
    IF rows = <<>> THEN path
    ELSE LET row == Head(rows) IN
         IF row = <<>> THEN traverse_rows(Tail(rows), target, with_bodies, path)
         ELSE IF with_bodies
         THEN LET identifier == row[1]
                  obj == row[2]
                  appended == Append(path, row)
              IN  IF py_eq(identifier, target) /\ py_eq(obj, PyStr("()"))
                  THEN appended
                  ELSE traverse_rows(Tail(rows), target, with_bodies, appended)
         ELSE LET identifier == row[1] IN
              IF InPath(identifier, path)
              THEN traverse_rows(Tail(rows), target, with_bodies, path)
              ELSE IF py_eq(identifier, target)
                   THEN Append(path, identifier)
                   ELSE traverse_rows(Tail(rows), target, with_bodies,
                                      Append(path, identifier))

\* A traverse that raises when it did not come to its target
traverse_raise_unreachable(db, tgt, with_bodies, rows) ==
    LET target == py_json_dumps(tgt)
        path == traverse_rows(rows, target, with_bodies, <<>>)
    IN  IF \E i \in DOMAIN rows : py_eq(rows[i][1], target)
        THEN Outcome(db, FALSE, path, 0)
        ELSE Outcome(db, TRUE, None, 0)

\* A traverse whose path may list an identifier twice
traverse_no_dedup(db, tgt, with_bodies, rows) ==
    Outcome(db, FALSE,
            traverse_rows_no_dedup(rows, py_json_dumps(tgt), with_bodies, <<>>), 0)

(* traverse._traverse over the rows its query fetched: the target is       *)
(* json.dumps(tgt), the path starts empty.                                 *)
traverse(db, tgt, with_bodies, rows) ==
    Outcome(db, FALSE, traverse_rows(rows, py_json_dumps(tgt), with_bodies, <<>>), 0)

Traverse(src, tgt, with_bodies, id_type) ==
    \E rows \in TraverseSql(DB, src, with_bodies, id_type) :
        Call("traverse",
             [src |-> src, tgt |-> tgt, with_bodies |-> with_bodies,
              id_type |-> id_type, rows |-> rows],
             traverse(DB, PyId(tgt, id_type), with_bodies, rows))

(* SpecTraverse: edges from the identifiers of the store to identifiers    *)
(* with or without edges of their own, and traversals without bodies from  *)
(* a source, with and without a target.                                    *)
TraverseIds == 1..(MaxId + 1)

NextTraverse ==
    \/ \E source_id \in Ids, target_id \in TraverseIds :
          ConnectNodes(source_id, target_id, EmptyDict)
    \/ \E src \in Ids, tgt \in TraverseIds \cup {None}, id_type \in IdTypes :
          Traverse(src, tgt, FALSE, id_type)

SpecTraverse == Init /\ [][NextTraverse]_vars

(* SpecTraverseBodies: the edges of one source, its node, and traversals   *)
(* with bodies from it.                                                    *)
TraverseSource == 1

NextTraverseBodies ==
    \/ \E target_id \in Ids : ConnectNodes(TraverseSource, target_id, EmptyDict)
    \/ \E data \in GraphDatas : AddNode(data, TraverseSource)
    \/ \E tgt \in IdArgs, id_type \in IdTypes :
          Traverse(TraverseSource, tgt, TRUE, id_type)

SpecTraverseBodies == Init /\ [][NextTraverseBodies]_vars

----------------------------------------------------------------------------
(* sqlitevss.py: the embedding search layer. A vector is a number, the     *)
(* distance of two vectors is the absolute value of their difference. The  *)
(* embedding provider is opaque: it may answer any vector.                 *)

MaxRows == 3        \* most rows of node embeddings where only these are searched
MaxSimRows == 2     \* most embedding rows of both tables where all searches are made
MaxVec == 2         \* stored vectors are 0..MaxVec
MaxLimit == 2       \* limits are 1..MaxLimit

Vectors == 0..MaxVec
QueryVectors == {0}
Limits == 1..MaxLimit
\* A threshold is None or a distance that a stored vector can have
Thresholds == {None} \cup (1..MaxVec)
SortColumns == {"distance", "created_at"}
(* What the limit handed to vector-search-node.sql bounds:                 *)
(*   "nearest"  the limit nearest rows are matched, then ordered by the    *)
(*              sort column and direction;                                 *)
(*   "ordered"  the rows are ordered by the sort column and direction and  *)
(*              the first limit of them are returned.                      *)
ScanShapes == {"nearest", "ordered"}

VDB == [nodes_embedding |-> nodes_embedding,
        relationship_embedding |-> relationship_embedding]

\* What a similarity search returns: None, or a list of rows
PyNone == [is_none |-> TRUE, rows |-> <<>>]
PyList(rows) == [is_none |-> FALSE, rows |-> rows]

Distance(u, v) == IF u >= v THEN u - v ELSE v - u

Range(s) == {s[i] : i \in DOMAIN s}

\* s[:n]
Take(s, n) == SubSeq(s, 1, IF n <= Len(s) THEN n ELSE Len(s))

\* The candidates of a table for a query vector: each row with its distance
Matches(table, embed) ==
    {[id |-> r.owner, embed_id |-> r.rowid, distance |-> Distance(embed, r.vector)] :
        r \in table}

\* The value a candidate is ordered by; rows are created in the order of their rowids
SortKey(m, sort_by) == IF sort_by = "distance" THEN m.distance ELSE m.embed_id

\* ORDER BY sort_by ASC or DESC; rows with equal values come in the order of their rowids
Before(m1, m2, sort_by, descending) ==
    IF SortKey(m1, sort_by) # SortKey(m2, sort_by)
    THEN IF descending THEN SortKey(m1, sort_by) > SortKey(m2, sort_by)
                       ELSE SortKey(m1, sort_by) < SortKey(m2, sort_by)
    ELSE m1.embed_id < m2.embed_id

OrderBy(S, sort_by, descending) ==
    [i \in 1..Cardinality(S) |->
        CHOOSE m \in S : Cardinality({x \in S : Before(x, m, sort_by, descending)}) = i - 1]

\* The engine's nearest-neighbour match: the k candidates nearest to the query vector
Nearest(table, embed, k) == Take(OrderBy(Matches(table, embed), "distance", FALSE), k)

\* vector-search-node.sql with (embed_json, limit, sort_by, descending, ...)
VectorSearchNodeSql(table, embed, limit, sort_by, descending, shape) ==
    IF shape = "nearest"
    THEN OrderBy(Range(Nearest(table, embed, limit)), sort_by, descending)
    ELSE Take(OrderBy(Matches(table, embed), sort_by, descending), limit)

\* vector-search-edge.sql and vector-search-edge-desc.sql with (embed, limit)
VectorSearchEdgeSql(table, embed, limit, descending, shape) ==
    IF shape = "nearest"
    THEN OrderBy(Range(Nearest(table, embed, limit)), "distance", descending)
    ELSE Take(OrderBy(Matches(table, embed), "distance", descending), limit)

\* similarity-search-node.sql and similarity-search-edge.sql with (embed_json, limit)
SimilaritySearchSql(table, embed, limit) == Nearest(table, embed, limit)

\* SELECT COALESCE(MAX(rowid), 0) FROM <table>
MaxRowid(table) ==
    IF table = {} THEN 0
    ELSE CHOOSE n \in {r.rowid : r \in table} : \A r \in table : r.rowid <= n

(* insert-node-embedding.sql and insert-edge-embedding.sql with (count,    *)
(* vector): the row is stored under the sequence id count, which is the    *)
(* table's primary key, and is associated with its owner record.           *)
InsertEmbeddingSql(table, count, vector, owner) ==
    IF count \in {r.rowid : r \in table} THEN table
    ELSE table \cup {[rowid |-> count, owner |-> owner, vector |-> vector]}

\* A filter that lets the candidate at the threshold through
below_threshold_inclusive(rows, threshold) ==
    SelectSeq(rows, LAMBDA m : m.distance <= threshold)

\* [node for node in nodes if node[4] < threshold]
below_threshold(rows, threshold) ==
    SelectSeq(rows, LAMBDA m : m.distance < threshold)

\* A search that filters first and answers None for what is left empty
search_result_none_when_filtered_empty(rows, threshold, limit) ==
    LET kept == IF threshold # None THEN Take(below_threshold(rows, threshold), limit)
                ELSE Take(rows, limit)
    IN  IF kept = <<>> THEN PyNone ELSE PyList(kept)

(* What _search_node and _search_edge make of the rows of their scan:      *)
(* None when there are none, else the rows below the threshold (all rows   *)
(* when there is no threshold), cut to limit.                              *)
search_result(rows, threshold, limit) ==
    IF rows = <<>> THEN PyNone
    ELSE IF threshold # None THEN PyList(Take(below_threshold(rows, threshold), limit))
    ELSE PyList(Take(rows, limit))

\* A search that binds the direction the wrong way round
vector_search_node_flipped(db, embed, threshold, descending, limit, sort_by, shape) ==
    Outcome(db, FALSE,
            search_result(VectorSearchNodeSql(db.nodes_embedding, embed, limit,
                                              sort_by, ~descending, shape),
                          threshold, limit),
            0)

vector_search_node(db, embed, threshold, descending, limit, sort_by, shape) ==
    Outcome(db, FALSE,
            search_result(VectorSearchNodeSql(db.nodes_embedding, embed, limit,
                                              sort_by, descending, shape),
                          threshold, limit),
            0)

vector_search_edge(db, embed, threshold, descending, limit, shape) ==
    Outcome(db, FALSE,
            search_result(VectorSearchEdgeSql(db.relationship_embedding, embed, limit,
                                              descending, shape),
                          threshold, limit),
            0)

vector_search_node_from_multi_db(db, embed, threshold, limit) ==
    Outcome(db, FALSE,
            search_result(SimilaritySearchSql(db.nodes_embedding, embed, limit),
                          threshold, limit),
            0)

vector_search_edge_from_multi_db(db, embed, threshold, limit) ==
    Outcome(db, FALSE,
            search_result(SimilaritySearchSql(db.relationship_embedding, embed, limit),
                          threshold, limit),
            0)

(* What embedding_model.get_embedding hands back in place of a vector when  *)
(* the provider fails: the call raises.                                    *)
ProviderError == -1

(* _add_embedding: count = max(rowid) + 1, the provider's vector is        *)
(* inserted under it. get_embedding is called for the arguments of the     *)
(* insert: when it raises, nothing was inserted and the unit's own commit  *)
(* is not come to. That commit is the unit's last statement.               *)
add_embedding(db, id, vector) ==
    IF vector = ProviderError THEN Outcome(db, TRUE, None, 0)
    ELSE Outcome([db EXCEPT !.nodes_embedding =
                     InsertEmbeddingSql(@, MaxRowid(@) + 1, vector, id)],
                 FALSE, None, 1)

\* _add_edge_embedding: the same on relationship_embedding
add_edge_embedding(db, source, target, vector) ==
    Outcome([db EXCEPT !.relationship_embedding =
                InsertEmbeddingSql(@, MaxRowid(@) + 1, vector, <<source, target>>)],
            FALSE, None, 1)

(* _add_embeddings: the count is read once, the element at position i of   *)
(* the batch is inserted under count + i. When the provider raises for an  *)
(* element the loop ends there, the rows of the elements before it written *)
(* on the connection.                                                      *)
RECURSIVE insert_nodes_embeddings(_, _, _, _)
insert_nodes_embeddings(db, count, ids, vectors) ==
    IF ids = <<>> THEN Outcome(db, FALSE, None, 0)
    ELSE IF Head(vectors) = ProviderError THEN Outcome(db, TRUE, None, 0)
    ELSE LET o == Outcome([db EXCEPT !.nodes_embedding =
                              InsertEmbeddingSql(@, count, Head(vectors), Head(ids))],
                          FALSE, None, 1)
             rest == insert_nodes_embeddings(o.db, count + 1, Tail(ids), Tail(vectors))
         IN  [rest EXCEPT !.writes = @ + o.writes]

\* An _add_embeddings that stores the vector 0 for an element the provider failed on
add_embeddings_fallback(db, ids, vectors) ==
    insert_nodes_embeddings(db, MaxRowid(db.nodes_embedding) + 1, ids,
        [i \in DOMAIN vectors |-> IF vectors[i] = ProviderError THEN 0 ELSE vectors[i]])

add_embeddings(db, ids, vectors) ==
    insert_nodes_embeddings(db, MaxRowid(db.nodes_embedding) + 1, ids, vectors)

(* delete-node-embedding.sql and delete-edge-embedding.sql with (key,):    *)
(* the rows of the owner with that identifier go, none when it has none.   *)
DeleteEmbeddingSql(table, key) == {r \in table : r.owner # key}

\* A tuple, as a row fetched from a table is one
PyTuple(items) == [py |-> "tuple", v |-> items]

(* id[0]: the first component of a tuple, the first character of a string; *)
(* IndexError for an empty one, TypeError for an integer or None.          *)
first_item(id) ==
    IF id.py = "tuple"
    THEN IF id.v = <<>> THEN [raised |-> TRUE, ret |-> None]
         ELSE [raised |-> FALSE, ret |-> id.v[1]]
    ELSE IF id.py = "str"
    THEN IF id.v = "" THEN [raised |-> TRUE, ret |-> None]
         ELSE [raised |-> FALSE, ret |-> PyStr(Head(id.v))]
    ELSE [raised |-> TRUE, ret |-> None]

\* _remove_node: one delete, with id[0] of the id it was given
remove_node_embedding(db, id) ==
    LET key == first_item(id) IN
    IF key.raised THEN Outcome(db, TRUE, None, 0)
    ELSE Outcome([db EXCEPT !.nodes_embedding = DeleteEmbeddingSql(@, key.ret)],
                 FALSE, None,
                 Cardinality(db.nodes_embedding
                             \ DeleteEmbeddingSql(db.nodes_embedding, key.ret)))

\* _remove_edge: for id in ids, one delete with id[0]; the first that raises ends it
RECURSIVE remove_edge_embedding(_, _)
remove_edge_embedding(db, ids) ==
    IF ids = <<>> THEN Outcome(db, FALSE, None, 0)
    ELSE LET key == first_item(Head(ids)) IN
         IF key.raised THEN Outcome(db, TRUE, None, 0)
         ELSE LET left == DeleteEmbeddingSql(db.relationship_embedding, key.ret)
                  rest == remove_edge_embedding(
                              [db EXCEPT !.relationship_embedding = left], Tail(ids))
              IN  [rest EXCEPT !.writes =
                       @ + Cardinality(db.relationship_embedding \ left)]

(* self.db.atomic: the atomic of the database the vector store was given;  *)
(* it commits what the unit of work left when it returned.                 *)
db_atomic(db, out) ==
    [db |-> IF out.raised THEN db ELSE out.db,
     raised |-> out.raised,
     ret |-> IF out.raised THEN None ELSE out.ret]

\* The sequence ids of the rows of a table
Rowids(table) == {r.rowid : r \in table}

\* assigned, once the tables went from before to after: the ids of the new rows added
Assigned(before, after) ==
    [t \in DOMAIN assigned |-> assigned[t] \cup (Rowids(after[t]) \ Rowids(before[t]))]

VCall(op, args, out) ==
    LET res == db_atomic(VDB, out) IN
    /\ nodes_embedding' = res.db.nodes_embedding
    /\ relationship_embedding' = res.db.relationship_embedding
    /\ last' = [op |-> op, args |-> args, failed |-> out.raised, writes |-> out.writes,
                raised |-> res.raised, ret |-> res.ret]
    /\ assigned' = Assigned(VDB, res.db)
    /\ UNCHANGED <<nodes, edges, inflight>>

Rows == Cardinality(nodes_embedding) + Cardinality(relationship_embedding)

AddNodeEmbedding(id, vector, max_rows) ==
    /\ Rows < max_rows
    /\ VCall("add_node_embedding", [id |-> id, vector |-> vector],
             add_embedding(VDB, id, vector))

AddEdgeEmbedding(source, target, vector, max_rows) ==
    /\ Rows < max_rows
    /\ VCall("add_edge_embedding", [source |-> source, target |-> target],
             add_edge_embedding(VDB, source, target, vector))

AddNodeEmbeddings(ids, vectors, max_rows) ==
    /\ Rows + Len(ids) <= max_rows
    /\ VCall("add_node_embeddings", [ids |-> ids, vectors |-> vectors],
             add_embeddings(VDB, ids, vectors))

DeleteNodeEmbedding(id) ==
    VCall("delete_node_embedding", [id |-> id], remove_node_embedding(VDB, id))

DeleteEdgeEmbedding(ids) ==
    VCall("delete_edge_embedding", [ids |-> ids], remove_edge_embedding(VDB, ids))

SearchArgs(embed, threshold, descending, limit, sort_by, shape) ==
    [embed |-> embed, threshold |-> threshold, descending |-> descending,
     limit |-> limit, sort_by |-> sort_by, shape |-> shape]

VectorSearchNode(embed, threshold, descending, limit, sort_by, shape) ==
    VCall("vector_search_node",
          SearchArgs(embed, threshold, descending, limit, sort_by, shape),
          vector_search_node(VDB, embed, threshold, descending, limit, sort_by, shape))

VectorSearchEdge(embed, threshold, descending, limit, shape) ==
    VCall("vector_search_edge",
          SearchArgs(embed, threshold, descending, limit, "distance", shape),
          vector_search_edge(VDB, embed, threshold, descending, limit, shape))

VectorSearchNodeFromMultiDb(embed, threshold, limit) ==
    VCall("vector_search_node_from_multi_db",
          SearchArgs(embed, threshold, FALSE, limit, "distance", "nearest"),
          vector_search_node_from_multi_db(VDB, embed, threshold, limit))

VectorSearchEdgeFromMultiDb(embed, threshold, limit) ==
    VCall("vector_search_edge_from_multi_db",
          SearchArgs(embed, threshold, FALSE, limit, "distance", "nearest"),
          vector_search_edge_from_multi_db(VDB, embed, threshold, limit))

(* SpecVss: node embeddings and the searches over them.                    *)
NextVss ==
    \/ \E vector \in Vectors : AddNodeEmbedding(1, vector, MaxRows)
    \/ \E embed \in QueryVectors, threshold \in Thresholds, descending \in BOOLEAN,
          limit \in Limits, sort_by \in SortColumns, shape \in ScanShapes :
          VectorSearchNode(embed, threshold, descending, limit, sort_by, shape)

SpecVss == Init /\ [][NextVss]_vars

(* SpecSim: node and edge embeddings and the four similarity searches.     *)
NextSim ==
    \/ \E vector \in Vectors : AddNodeEmbedding(1, vector, MaxSimRows)
    \/ \E vector \in Vectors : AddEdgeEmbedding(1, 2, vector, MaxSimRows)
    \/ \E embed \in QueryVectors, threshold \in Thresholds, descending \in BOOLEAN,
          limit \in Limits, shape \in ScanShapes :
          VectorSearchNode(embed, threshold, descending, limit, "distance", shape)
    \/ \E embed \in QueryVectors, threshold \in Thresholds, descending \in BOOLEAN,
          limit \in Limits, shape \in ScanShapes :
          VectorSearchEdge(embed, threshold, descending, limit, shape)
    \/ \E embed \in QueryVectors, threshold \in Thresholds, limit \in Limits :
          VectorSearchNodeFromMultiDb(embed, threshold, limit)
    \/ \E embed \in QueryVectors, threshold \in Thresholds, limit \in Limits :
          VectorSearchEdgeFromMultiDb(embed, threshold, limit)

SpecSim == Init /\ [][NextSim]_vars

(* add_edge_embeddings: for each element of the batch, in order,           *)
(* self.db.atomic(self._add_edge_embedding(edge_data)): a unit of work and *)
(* a commit per element. The embedding provider is called within the       *)
(* element's unit and may raise; that unit is then not committed and the   *)
(* exception ends the loop, after the units of the elements before it were *)
(* committed. db is the committed tables; units counts the calls of atomic.*)
RECURSIVE add_edge_embeddings(_, _)
add_edge_embeddings(db, batch) ==
    IF batch = <<>> THEN [db |-> db, raised |-> FALSE, writes |-> 0, units |-> 0]
    ELSE LET x == Head(batch)
             out == IF x.provider_fails THEN Outcome(db, TRUE, None, 0)
                    ELSE add_edge_embedding(db, x.source, x.target, x.vector)
             res == db_atomic(db, out)
         IN  IF res.raised
             THEN [db |-> res.db, raised |-> TRUE, writes |-> 0, units |-> 1]
             ELSE LET rest == add_edge_embeddings(res.db, Tail(batch))
                  IN  [rest EXCEPT !.writes = @ + out.writes, !.units = @ + 1]

AddEdgeEmbeddings(batch, max_rows) ==
    LET res == add_edge_embeddings(VDB, batch) IN
    /\ Rows + Len(batch) <= max_rows
    /\ nodes_embedding' = res.db.nodes_embedding
    /\ relationship_embedding' = res.db.relationship_embedding
    /\ last' = [op |-> "add_edge_embeddings", args |-> [batch |-> batch],
                failed |-> res.raised, writes |-> res.writes,
                raised |-> res.raised, ret |-> None, units |-> res.units]
    /\ assigned' = Assigned(VDB, res.db)
    /\ UNCHANGED <<nodes, edges, inflight>>

(* SpecEmbedBatch: the batched embedding inserts, of edges and of nodes,   *)
(* the provider failing on some elements of an edge batch.                 *)
EdgeBatches ==
    SeqsUpTo([source : {1}, target : Ids, vector : {0}, provider_fails : BOOLEAN],
             MaxBatch)

NextEmbedBatch ==
    \/ \E batch \in EdgeBatches : AddEdgeEmbeddings(batch, MaxRows)
    \/ \E ids \in SeqsUpTo(Ids, MaxBatch) :
          AddNodeEmbeddings(ids, [i \in DOMAIN ids |-> 0], MaxRows)

SpecEmbedBatch == Init /\ [][NextEmbedBatch]_vars

(* SpecProvider: node embedding inserts, single and batched, with a       *)
(* provider that hands back a vector or fails.                             *)
ProvidedVectors == {0, 1, ProviderError}

NextProvider ==
    \/ \E id \in Ids, vector \in ProvidedVectors : AddNodeEmbedding(id, vector, MaxRows)
    \/ \E vectors \in SeqsUpTo(ProvidedVectors, MaxBatch) :
          AddNodeEmbeddings([i \in DOMAIN vectors |-> 1], vectors, MaxRows)

SpecProvider == Init /\ [][NextProvider]_vars

(* SpecSeq: one writer that inserts node embeddings, one at a time and in  *)
(* batches, and deletes them by owner; followed while the sequence ids are *)
(* at most MaxRows.                                                        *)
NextSeq ==
    \/ \E id \in Ids :
          /\ MaxRowid(nodes_embedding) < MaxRows
          /\ AddNodeEmbedding(id, 0, MaxRows)
    \/ \E ids \in SeqsUpTo(Ids, MaxBatch) :
          /\ MaxRowid(nodes_embedding) + Len(ids) <= MaxRows
          /\ AddNodeEmbeddings(ids, [i \in DOMAIN ids |-> 0], MaxRows)
    \/ \E id \in Ids : DeleteNodeEmbedding(PyTuple(<<id>>))

SpecSeq == Init /\ [][NextSeq]_vars

(* The store and the embedding layer side by side: nodes and edges are     *)
(* written and removed while embedding rows of one of the identifiers are  *)
(* stored. The store's batches have one element, for that identifier.      *)
StoreSource == 1

NextStoreVss ==
    \/ \E identifier \in Ids : AddNode([a |-> 1], identifier)
    \/ AddNodes(<<[a |-> 1]>>, <<StoreSource>>)
    \/ \E identifier \in Ids : UpsertNode(identifier, [b |-> 2])
    \/ UpsertNodes(<<[b |-> 2]>>, <<StoreSource>>)
    \/ ConnectNodes(StoreSource, StoreSource, EmptyDict)
    \/ ConnectManyNodes(<<StoreSource>>, <<StoreSource>>, <<EmptyDict>>)
    \/ \E identifier \in Ids : RemoveNode(identifier)
    \/ RemoveNodes(<<StoreSource>>)
    \/ /\ MaxRowid(nodes_embedding) < MaxSimRows
       /\ AddNodeEmbedding(StoreSource, 0, MaxSimRows)
    \/ /\ MaxRowid(relationship_embedding) < MaxSimRows
       /\ AddEdgeEmbedding(StoreSource, StoreSource, 0, MaxSimRows)
    \/ DeleteNodeEmbedding(PyTuple(<<StoreSource>>))
    \/ DeleteEdgeEmbedding(<<PyTuple(<<<<StoreSource, StoreSource>>>>)>>)

SpecStoreVss == Init /\ [][NextStoreVss]_vars

(* Embedding rows of owners whose identifiers are strings of one and of    *)
(* two characters and an integer, deleted by identifier.                   *)
DeleteIds == {PyStr("1"), PyStr("12"), PyInt(1)}

NextDelete ==
    \/ \E id \in DeleteIds :
          /\ MaxRowid(nodes_embedding) < MaxRows
          /\ AddNodeEmbedding(id, 0, MaxRows)
    \/ \E id \in DeleteIds : DeleteNodeEmbedding(id)

SpecDelete == Init /\ [][NextDelete]_vars

(* Two callers, each with a connection of its own: a unit of work reads    *)
(* and writes the committed tables statement by statement, and the         *)
(* statements of the two callers' units come in any order.                 *)

\* A count that skips the ids other callers have computed and not inserted yet
select_count_reserved(table) ==
    MaxRowid(table) + 1 + Cardinality({c \in Callers : inflight[c].pc = "insert"})

\* SELECT COALESCE(MAX(rowid), 0) FROM <table>, fetchone()[0] + 1
select_count(table) == MaxRowid(table) + 1

(* The first statement of _insert and of _insert_edge_embedding, on the    *)
(* caller's connection: the count is taken from the rows committed by then.*)
SelectCount(caller, table, owner, vector, max_rows) ==
    /\ inflight[caller].pc = "idle"
    /\ Rows < max_rows
    /\ inflight' = [inflight EXCEPT ![caller] =
                       [pc |-> "insert",
                        args |-> [table |-> table, owner |-> owner, vector |-> vector],
                        read |-> select_count(VDB[table])]]
    /\ UNCHANGED <<nodes, edges, nodes_embedding, relationship_embedding, last, assigned>>

(* The second statement, the insert under the count that was read, and the *)
(* commit; a sequence id that is taken by then is refused.                 *)
InsertUnderCount(caller) ==
    /\ inflight[caller].pc = "insert"
    /\ LET a == inflight[caller].args
           count == inflight[caller].read
           refused == count \in Rowids(VDB[a.table])
           out == Outcome([VDB EXCEPT ![a.table] =
                              InsertEmbeddingSql(@, count, a.vector, a.owner)],
                          refused, None, IF refused THEN 0 ELSE 1)
           res == db_atomic(VDB, out)
       IN  /\ nodes_embedding' = res.db.nodes_embedding
           /\ relationship_embedding' = res.db.relationship_embedding
           /\ last' = [op |-> IF a.table = "nodes_embedding" THEN "add_node_embedding"
                              ELSE "add_edge_embedding",
                       args |-> [caller |-> caller, owner |-> a.owner, count |-> count],
                       failed |-> out.raised, writes |-> out.writes,
                       raised |-> res.raised, ret |-> res.ret]
           /\ assigned' = Assigned(VDB, res.db)
    /\ inflight' = [inflight EXCEPT ![caller] = Idle]
    /\ UNCHANGED <<nodes, edges>>

\* A write that looks the record up once more and merges into what it finds then
upsert_write_reread(db, identifier, data, current_data) ==
    upsert_node(db, identifier, data)

(* _upsert_node from its second statement on, current_data being what its  *)
(* lookup returned: insert when that was empty, else merge into it and     *)
(* update.                                                                 *)
upsert_write(db, identifier, data, current_data) ==
    IF current_data = EmptyDict
    THEN insert_node(db, identifier, data)
    ELSE UpdateNodeSql(db,
                       json_dumps(set_id(identifier, upsert_merge(current_data, data))),
                       identifier)

\* The lookup of _upsert_node on the caller's connection: find_node on the committed rows
LookupNode(caller, identifier, data) ==
    /\ inflight[caller].pc = "idle"
    /\ inflight' = [inflight EXCEPT ![caller] =
                       [pc |-> "write",
                        args |-> [id |-> identifier, data |-> data],
                        read |-> find_node(DB, identifier).ret]]
    /\ UNCHANGED <<nodes, edges, nodes_embedding, relationship_embedding, last, assigned>>

(* The insert or update of _upsert_node and the commit of atomic. The call *)
(* is recorded with what it had looked up and with what was stored when it *)
(* wrote.                                                                  *)
WriteNode(caller) ==
    /\ inflight[caller].pc = "write"
    /\ LET a == inflight[caller].args
           out == upsert_write(DB, a.id, a.data, inflight[caller].read)
           res == atomic(DB, out)
       IN  /\ nodes' = res.db.nodes
           /\ edges' = res.db.edges
           /\ last' = [op |-> "upsert_node",
                       args |-> [caller |-> caller, id |-> a.id, data |-> a.data,
                                 read |-> inflight[caller].read,
                                 stored |-> find_node(DB, a.id).ret],
                       failed |-> out.raised, writes |-> out.writes,
                       raised |-> res.raised, ret |-> res.ret]
    /\ inflight' = [inflight EXCEPT ![caller] = Idle]
    /\ UNCHANGED <<nodes_embedding, relationship_embedding, assigned>>

(* SpecUpsertRace: nodes added while no unit is under way, and            *)
(* upsert_node by two callers that are not serialized, on attribute        *)
(* mappings with no key in common.                                         *)
DisjointDatas == {[a |-> 1], [b |-> 2]}

\* The identifier both callers upsert
ContendedIds == {1}

NextUpsertRace ==
    \/ \E identifier \in ContendedIds :
          /\ \A caller \in Callers : inflight[caller].pc = "idle"
          /\ AddNode(EmptyDict, identifier)
    \/ \E caller \in Callers, identifier \in ContendedIds, data \in DisjointDatas :
          LookupNode(caller, identifier, data)
    \/ \E caller \in Callers : WriteNode(caller)

SpecUpsertRace == Init /\ [][NextUpsertRace]_vars

(* SpecRace: add_node_embedding and add_edge_embedding by two callers that *)
(* are not serialized.                                                     *)
NextRace ==
    \/ \E caller \in Callers, id \in Ids :
          SelectCount(caller, "nodes_embedding", id, 0, MaxSimRows)
    \/ \E caller \in Callers :
          SelectCount(caller, "relationship_embedding", <<1, 2>>, 0, MaxSimRows)
    \/ \E caller \in Callers : InsertUnderCount(caller)

SpecRace == Init /\ [][NextRace]_vars

----------------------------------------------------------------------------
(* The store as a caller sees it.                                          *)

\* What find_node(identifier) returns on the committed tables
Found(identifier) == find_node(DB, identifier).ret
FoundNext(identifier) == find_node([nodes |-> nodes', edges |-> edges'], identifier).ret

\* attrs with the member id set to identifier, and nothing else
WithId(attrs, identifier) ==
    [k \in DOMAIN attrs \cup {"id"} |-> IF k = "id" THEN identifier ELSE attrs[k]]

\* The identifier under which element i of a batch is inserted, None when it has none
ElementId(ids, data_list, i) ==
    IF ids[i] # None THEN ids[i]
    ELSE IF "id" \in DOMAIN data_list[i] THEN data_list[i]["id"] ELSE None

----------------------------------------------------------------------------
(* C1. A unit of work that raises after it has written one or more rows    *)
(* makes the call raise, and the committed tables are after the call what  *)
(* they were before it: none of its writes is visible to a later call.     *)
C1_RollbackOnFailure ==
    [][(last'.failed /\ last'.writes >= 1)
          => (last'.raised /\ nodes' = nodes /\ edges' = edges)]_vars

\* A batched upsert whose second or later element was refused
C1_Witness ==
    /\ last.op = "upsert_nodes"
    /\ last.failed /\ last.writes >= 1 /\ last.raised

(* C2. After a committed add_node(attrs, id), find_node(id) returns attrs  *)
(* with the member id set to id, and no other member.                      *)
C2_RoundTrip ==
    (last.op = "add_node" /\ ~last.raised /\ last.args.id # None)
        => Found(last.args.id) = WithId(last.args.data, last.args.id)

\* An add_node whose attributes carry two members and an id of their own
C2_Witness ==
    /\ last.op = "add_node" /\ ~last.raised /\ last.args.id # None
    /\ last.args.data \in {[a |-> 1, b |-> 2], [id |-> MaxId, a |-> 1]}
    /\ Found(last.args.id) # EmptyDict

(* C3. upsert_node(id, new) on an absent id stores new with id injected;   *)
(* on a present id with body old it stores the shallow merge: a member of  *)
(* new replaces the member of old with the same key, a member of old whose *)
(* key new lacks is kept. The member id is the identifier in both cases.   *)
C3_UpsertMerge ==
    [][(last'.op = "upsert_node" /\ ~last'.raised /\ last'.args.id # None)
          => LET id == last'.args.id
                 new == last'.args.data
                 old == Found(id)
                 got == FoundNext(id)
             IN  IF old = EmptyDict
                 THEN got = WithId(new, id)
                 ELSE /\ DOMAIN got = DOMAIN old \cup DOMAIN new
                      /\ got["id"] = id
                      /\ \A k \in DOMAIN got \ {"id"} :
                            got[k] = IF k \in DOMAIN new THEN new[k] ELSE old[k]]_vars

\* {a: 1}, {b: 2} and then {a: 3} were upserted: a was replaced, b was kept
C3_Witness ==
    /\ last.op = "upsert_node" /\ ~last.raised
    /\ last.args.data = [a |-> 3]
    /\ last.writes = 1
    /\ last.args.id # None
    /\ Found(last.args.id) = WithId([a |-> 3, b |-> 2], last.args.id)

(* C4. After remove_node(A), and after remove_nodes(ids) for every A of    *)
(* ids, find_node(A) is empty, no edge has A as its source or target, and  *)
(* get_connections(B) returns no edge to or from A for any other node B.   *)
Removed ==
    IF last.op = "remove_node" THEN {last.args.id}
    ELSE IF last.op = "remove_nodes"
         THEN {last.args.ids[i] : i \in DOMAIN last.args.ids}
         ELSE {}

C4_CascadingDelete ==
    \A A \in Removed :
        /\ Found(A) = EmptyDict
        /\ \A e \in edges : e.source # A /\ e.target # A
        /\ \A B \in Ids \ {A} :
              \A e \in get_connections(DB, B).ret : e.source # A /\ e.target # A

\* A removal that deleted edges with the node, other nodes and edges being left
C4_Witness ==
    /\ last.op = "remove_node" /\ ~last.raised
    /\ last.writes >= 2
    /\ nodes # {}
    /\ edges # {}

(* C5. When add_nodes raises, whatever the position of the element that    *)
(* was refused, find_node returns for the identifier of every element of   *)
(* the batch what it returned before the call: no element was persisted,   *)
(* those before the refused one included.                                  *)
C5_BatchAtomicity ==
    [][(last'.op = "add_nodes" /\ last'.raised)
          => \A i \in DOMAIN last'.args.ids :
                LET id == ElementId(last'.args.ids, last'.args.data_list, i)
                IN  id # None => FoundNext(id) = Found(id)]_vars

\* An add_nodes refused at its second or a later element, the table staying empty
C5_Witness ==
    /\ last.op = "add_nodes" /\ last.raised
    /\ last.writes >= 1
    /\ nodes = {}

(* C6. find_node(id) for an identifier with no stored node returns the     *)
(* empty mapping, raises nothing and leaves the tables as they were.       *)
C6_NotFoundIsEmpty ==
    [][(last'.op = "find_node" /\ last'.args.id \notin NodeIds(DB))
          => /\ ~last'.raised
             /\ last'.ret = EmptyDict
             /\ nodes' = nodes /\ edges' = edges]_vars

\* A lookup of an identifier that is not stored, while another one is
C6_Witness ==
    /\ last.op = "find_node" /\ ~last.raised
    /\ last.args.id \in Ids
    /\ last.args.id \notin NodeIds(DB)
    /\ nodes # {}
    /\ last.ret = EmptyDict

----------------------------------------------------------------------------
(* The similarity searches as a caller sees them.                          *)

NodeSearches == {"vector_search_node", "vector_search_node_from_multi_db"}
EdgeSearches == {"vector_search_edge", "vector_search_edge_from_multi_db"}
Searches == NodeSearches \cup EdgeSearches

\* The table the last search read
SearchedTable ==
    IF last.op \in NodeSearches THEN nodes_embedding ELSE relationship_embedding

\* The stored candidates of the last search, and those below its threshold
Candidates == Matches(SearchedTable, last.args.embed)
Passing == {m \in Candidates : m.distance < last.args.threshold}

\* The rows the scan of the last search delivered
Scanned ==
    IF last.op = "vector_search_node"
    THEN VectorSearchNodeSql(nodes_embedding, last.args.embed, last.args.limit,
                             last.args.sort_by, last.args.descending, last.args.shape)
    ELSE IF last.op = "vector_search_edge"
    THEN VectorSearchEdgeSql(relationship_embedding, last.args.embed, last.args.limit,
                             last.args.descending, last.args.shape)
    ELSE SimilaritySearchSql(SearchedTable, last.args.embed, last.args.limit)

\* m1 comes strictly before m2 in the requested order
StrictlyBefore(m1, m2, sort_by, descending) ==
    IF descending THEN SortKey(m1, sort_by) > SortKey(m2, sort_by)
                  ELSE SortKey(m1, sort_by) < SortKey(m2, sort_by)

(* rows are the first n of the candidates cands in the requested order:    *)
(* as many as there are, up to n; in that order; and no candidate that was *)
(* left out comes strictly before one that is in.                          *)
FirstOf(rows, cands, n, sort_by, descending) ==
    /\ Len(rows) = (IF Cardinality(cands) <= n THEN Cardinality(cands) ELSE n)
    /\ Range(rows) \subseteq cands
    /\ Cardinality(Range(rows)) = Len(rows)
    /\ \A i, j \in DOMAIN rows :
          i < j => ~StrictlyBefore(rows[j], rows[i], sort_by, descending)
    /\ \A c \in cands \ Range(rows) : \A r \in Range(rows) :
          ~StrictlyBefore(c, r, sort_by, descending)

(* C7. For either direction, vector_search_node with a threshold t and a   *)
(* limit n returns the first n, in the requested order, of the stored      *)
(* candidates whose distance is below t; a candidate below t is never      *)
(* displaced by one that is not. Stated for the order by distance.         *)
C7_ThresholdBeforeLimit ==
    (/\ last.op = "vector_search_node"
     /\ last.args.sort_by = "distance"
     /\ last.args.threshold # None
     /\ ~last.ret.is_none)
        => FirstOf(last.ret.rows, Passing, last.args.limit,
                   "distance", last.args.descending)

(* C8. vector_search_node with descending = false, sort_by = distance, a   *)
(* threshold t and a limit n returns, of a table that is not empty, the n  *)
(* nearest candidates with a distance below t, in ascending order of       *)
(* distance.                                                               *)
C8_SimilarityRanking ==
    (/\ last.op = "vector_search_node"
     /\ ~last.args.descending /\ last.args.sort_by = "distance"
     /\ last.args.threshold # None
     /\ nodes_embedding # {})
        => /\ ~last.ret.is_none
           /\ FirstOf(last.ret.rows, Passing, last.args.limit, "distance", FALSE)

\* Distances 0, 1 and 2 are stored; threshold 2 and limit 2 give 0, 1 and leave 2 out
C8_Witness ==
    /\ last.op = "vector_search_node"
    /\ ~last.args.descending /\ last.args.sort_by = "distance"
    /\ last.args.threshold = 2 /\ last.args.limit = 2
    /\ {m.distance : m \in Candidates} = {0, 1, 2}
    /\ Cardinality(Candidates) = 3
    /\ ~last.ret.is_none
    /\ [i \in DOMAIN last.ret.rows |-> last.ret.rows[i].distance] = <<0, 1>>

(* C9. Each of the four similarity searches returns None exactly when its  *)
(* scan delivered no row, and the empty list, not None, when the scan      *)
(* delivered rows of which none is below the threshold.                    *)
C9_EmptyVersusNone ==
    last.op \in Searches
        => /\ last.ret.is_none <=> (Scanned = <<>>)
           /\ (/\ Scanned # <<>>
               /\ last.args.threshold # None
               /\ \A i \in DOMAIN Scanned : ~(Scanned[i].distance < last.args.threshold))
                 => last.ret = PyList(<<>>)

\* An edge search whose scan delivered rows, none of them below the threshold
C9_Witness ==
    /\ last.op = "vector_search_edge"
    /\ Scanned # <<>>
    /\ last.args.threshold # None
    /\ last.ret = PyList(<<>>)

(* C10. Every row a similarity search returns when it is given a threshold *)
(* t has a distance strictly below t, and no search returns more than      *)
(* limit rows.                                                             *)
C10_StrictThreshold ==
    (last.op \in Searches /\ ~last.ret.is_none)
        => /\ Len(last.ret.rows) <= last.args.limit
           /\ last.args.threshold # None
                 => \A i \in DOMAIN last.ret.rows :
                       last.ret.rows[i].distance < last.args.threshold

\* A search that returned a row and left out the scanned row at the threshold
C10_Witness ==
    /\ last.op = "vector_search_node_from_multi_db"
    /\ last.args.threshold # None
    /\ ~last.ret.is_none
    /\ Len(last.ret.rows) >= 1
    /\ \E i \in DOMAIN Scanned : Scanned[i].distance = last.args.threshold

----------------------------------------------------------------------------
(* Traversal.                                                              *)

Traversals == {"traverse"}

\* The rows the traversal fetched and the column value of its target
FetchedRows == last.args.rows
TargetColumn == ColumnValue(PyId(last.args.tgt, last.args.id_type))

\* The rows whose identifier is the target
TargetRows == {i \in DOMAIN FetchedRows : py_eq(FetchedRows[i][1], TargetColumn)}

\* The identifiers of rows[1..n], each once, in the order of the first row it is in
FirstVisits(rows, n) ==
    LET F[i \in 0..n] ==
            IF i = 0 THEN <<>>
            ELSE IF \E j \in 1..(i - 1) : py_eq(rows[j][1], rows[i][1])
                 THEN F[i - 1]
                 ELSE Append(F[i - 1], rows[i][1])
    IN  F[n]

(* C11: a traversal without bodies raises nothing; from a source without   *)
(* adjacency rows it returns the empty path; with a target that is not     *)
(* among the source's adjacency rows it returns the whole one-hop          *)
(* frontier, every identifier of the rows.                                 *)
C11_NoReachableTarget ==
    (last.op \in Traversals /\ ~last.args.with_bodies) =>
        /\ ~last.raised
        /\ FetchedRows = <<>> => last.ret = <<>>
        /\ TargetRows = {} => last.ret = FirstVisits(FetchedRows, Len(FetchedRows))

\* Edges A -> B and B -> C: traverse(A, target=C) returned [B]
C11_Witness ==
    /\ last.op \in Traversals /\ ~last.args.with_bodies
    /\ last.args.src = 1 /\ last.args.tgt = 3
    /\ edges = {[source |-> 1, target |-> 2, properties |-> json_dumps(EmptyDict)],
                [source |-> 2, target |-> 3, properties |-> json_dumps(EmptyDict)]}
    /\ TargetRows = {}
    /\ ~last.raised
    /\ last.ret = <<ColumnValue(PyId(2, last.args.id_type))>>

\* The first row whose identifier is the target
FirstTargetRow == CHOOSE i \in TargetRows : \A j \in TargetRows : i <= j

(* C12: a traversal without bodies whose target, a string or an integer,   *)
(* is among the source's adjacency rows stops when it appends the target:  *)
(* the path ends with the target and holds the identifiers of the rows up  *)
(* to the target's first row, none of a later row.                         *)
C12_EarlyTermination ==
    (/\ last.op \in Traversals /\ ~last.args.with_bodies
     /\ last.args.tgt # None
     /\ TargetRows # {}) =>
        /\ last.ret # <<>>
        /\ py_eq(last.ret[Len(last.ret)], TargetColumn)
        /\ last.ret = FirstVisits(FetchedRows, FirstTargetRow)

(* C13: the path of a traversal without bodies holds no identifier twice,  *)
(* and its identifiers stand in the order of the first row each is in,     *)
(* also when rows repeat an identifier.                                    *)
C13_DuplicateFree ==
    (last.op \in Traversals /\ ~last.args.with_bodies /\ ~last.raised) =>
        LET path == last.ret
            visits == FirstVisits(FetchedRows, Len(FetchedRows))
        IN  /\ \A i, j \in DOMAIN path : i # j => ~py_eq(path[i], path[j])
            /\ Len(path) <= Len(visits)
            /\ path = SubSeq(visits, 1, Len(path))

\* Two rows with one identifier, which the path holds once
C13_Witness ==
    /\ last.op \in Traversals /\ ~last.args.with_bodies
    /\ Len(FetchedRows) = 2
    /\ py_eq(FetchedRows[1][1], FetchedRows[2][1])
    /\ last.ret = <<FetchedRows[1][1]>>

\* The rows whose identifier is the target and whose terminator marker is "()"
TerminatorRows == {i \in TargetRows : py_eq(FetchedRows[i][3], PyStr("()"))}

(* C16: a traversal with bodies appends every triplet it visits and stops  *)
(* at the first row whose identifier is the target and whose terminator    *)
(* marker, the third component, is "()": the path is the rows up to that   *)
(* row, all the rows when there is none. Stated for integer identifiers.   *)
C16_StopsAtTerminator ==
    (/\ last.op \in Traversals /\ last.args.with_bodies
     /\ last.args.id_type = "int") =>
        LET stop == IF TerminatorRows = {} THEN Len(FetchedRows)
                    ELSE CHOOSE i \in TerminatorRows : \A j \in TerminatorRows : i <= j
        IN  last.ret = SubSeq(FetchedRows, 1, stop)

----------------------------------------------------------------------------
(* C14: after any sequence of add_node, add_nodes, upsert_node,            *)
(* upsert_nodes, remove_node and remove_nodes, the body of every stored    *)
(* node has an id member, and it is the identifier the node is stored      *)
(* under; also after an upsert_node whose data has another id of its own.  *)
C14_IdMirror ==
    \A r \in nodes :
        LET attributes == json_loads(r.body) IN
        /\ "id" \in DOMAIN attributes
        /\ attributes["id"] = r.id

\* An upsert_node of a stored node with data of another id has gone through
C14_Witness ==
    /\ last.op = "upsert_node" /\ ~last.raised /\ last.writes = 1
    /\ last.args.id # None
    /\ "id" \in DOMAIN last.args.data
    /\ last.args.data["id"] # last.args.id
    /\ \E r \in nodes :
          /\ r.id = last.args.id
          /\ json_loads(r.body) = [id |-> last.args.id, a |-> 1]
    /\ \E r \in nodes : r.id = last.args.data["id"]

----------------------------------------------------------------------------
(* C15: connect_nodes, run through atomic, raises for no pair of           *)
(* identifiers and leaves the edge stored, whether nodes with its source   *)
(* and target identifiers are stored or not.                               *)
C15_EdgeNeedsNoEndpoints ==
    last.op = "connect_nodes" =>
        /\ ~last.raised
        /\ \E e \in edges :
              /\ e.source = last.args.source
              /\ e.target = last.args.target
              /\ json_loads(e.properties) = EmptyDict

\* An edge was stored from a node that is stored to one that is not
C15_Witness ==
    /\ last.op = "connect_nodes" /\ ~last.raised
    /\ last.args.source \in NodeIds(DB)
    /\ last.args.target \notin NodeIds(DB)
    /\ \E e \in edges : e.source = last.args.source /\ e.target = last.args.target

----------------------------------------------------------------------------
(* C17: with one writer that inserts and deletes node embeddings, every    *)
(* insert, single or batched, is given a sequence id greater than every    *)
(* sequence id an earlier insert was given: no id is given twice.          *)
C17_MonotonicSequenceIds ==
    [][\A k \in Rowids(nodes_embedding') \ Rowids(nodes_embedding) :
           \A j \in assigned.nodes_embedding : k > j]_vars

----------------------------------------------------------------------------
\* The callers that have read their count and not inserted under it yet
Pending(table) ==
    {c \in Callers : inflight[c].pc = "insert" /\ inflight[c].args.table = table}

(* C18: embedding inserts of two callers that are not serialized can both  *)
(* read the same maximum and compute the same sequence id, each within its *)
(* own unit of work: a caller that reads its count while the id another    *)
(* caller computed on the same table is not inserted yet computes that id. *)
C18_SequenceIdRace ==
    [][\A c \in Callers, d \in Callers :
           (/\ c # d
            /\ inflight[c].pc = "idle" /\ inflight'[c].pc = "insert"
            /\ d \in Pending(inflight'[c].args.table)
            /\ inflight[d].read \notin Rowids(VDB[inflight[d].args.table]))
           => inflight'[c].read = inflight[d].read]_vars

\* Both callers have read, on one table, and hold the same sequence id
C18_Witness ==
    \E table \in DOMAIN assigned :
        /\ Pending(table) = Callers
        /\ inflight["first"].read = inflight["second"].read

----------------------------------------------------------------------------
(* C19: two upsert_node calls on one stored node that are not serialized   *)
(* can lose an update: what a call stores is its data merged into what it  *)
(* had looked up, whatever another call has stored since; the members the  *)
(* other call wrote in between are gone.                                   *)
C19_LostUpdate ==
    (/\ last.op = "upsert_node" /\ ~last.raised
     /\ last.args.read # EmptyDict) =>
        /\ Found(last.args.id) =
               WithId(Merge(last.args.read, last.args.data), last.args.id)
        /\ \A k \in DOMAIN last.args.stored :
               (k \notin DOMAIN last.args.read /\ k \notin DOMAIN last.args.data)
                   => k \notin DOMAIN Found(last.args.id)

\* The second of two writes has dropped the member a the first one had stored
C19_Witness ==
    /\ last.op = "upsert_node" /\ ~last.raised
    /\ last.args.data = [b |-> 2]
    /\ last.args.read = [id |-> last.args.id]
    /\ last.args.stored = [id |-> last.args.id, a |-> 1]
    /\ Found(last.args.id) = [id |-> last.args.id, b |-> 2]

----------------------------------------------------------------------------
(* C20: a write operation makes its writes in one atomic unit, committed   *)
(* once when the unit has returned, and commits none of them while a later *)
(* statement of it can fail: add_edge_embeddings runs at most one unit,    *)
(* and when it raises, the embedding tables are as they were before it.    *)
C20_SingleCommit ==
    [][last'.op = "add_edge_embeddings" =>
          /\ last'.units <= 1
          /\ last'.raised =>
                /\ relationship_embedding' = relationship_embedding
                /\ nodes_embedding' = nodes_embedding]_vars

----------------------------------------------------------------------------
\* The provider failed for the single insert, or for some element of the batch
ProviderFailedNext ==
    \/ /\ last'.op = "add_node_embedding"
       /\ last'.args.vector = ProviderError
    \/ /\ last'.op = "add_node_embeddings"
       /\ \E k \in DOMAIN last'.args.vectors : last'.args.vectors[k] = ProviderError

(* C21: when the embedding provider fails for a single node-embedding      *)
(* insert, or for the k-th element of a batched one, the call raises and   *)
(* the embedding tables are as before it: no row of the unit is stored,    *)
(* neither a fallback vector nor the rows of the elements before the k-th. *)
C21_ProviderFailure ==
    [][ProviderFailedNext =>
          /\ last'.raised
          /\ nodes_embedding' = nodes_embedding
          /\ relationship_embedding' = relationship_embedding]_vars

\* The provider failed on the second element, after the first one's row was written
C21_Witness ==
    /\ last.op = "add_node_embeddings"
    /\ last.args.vectors = <<0, ProviderError>>
    /\ last.raised /\ last.writes = 1
    /\ nodes_embedding # {}

----------------------------------------------------------------------------
(* upsert_node(id, data) called for each pair, one call after the other:   *)
(* every call is a unit of its own and is committed when it returns; a     *)
(* call that raises ends the row of calls.                                 *)
RECURSIVE OneAfterAnother(_, _)
OneAfterAnother(db, pairs) ==
    IF pairs = <<>> THEN db
    ELSE LET res == atomic(db, upsert_node(db, Head(pairs)[1], Head(pairs)[2]))
         IN  IF res.raised THEN res.db ELSE OneAfterAnother(res.db, Tail(pairs))

\* The store as the calls one after another leave it, for the batch of the step
SequentialNext == OneAfterAnother(DB, Zip(last'.args.ids, last'.args.data_list))

(* C22 as it is stated: upsert_nodes(data_list, ids) leaves the store as   *)
(* upsert_node(id, data) for each pair, one after another in input order,  *)
(* leaves it.                                                              *)
C22_BatchOrder_AsStated ==
    [][last'.op = "upsert_nodes" =>
          /\ nodes' = SequentialNext.nodes
          /\ edges' = SequentialNext.edges]_vars

(* C22: an upsert_nodes(data_list, ids) that does not raise leaves the     *)
(* store as upsert_node(id, data) for each pair, one after another in      *)
(* input order, leaves it, also when an identifier is in ids more than     *)
(* once; one that raises leaves the store as it was.                       *)
C22_BatchOrder ==
    [][last'.op = "upsert_nodes" =>
          /\ ~last'.raised =>
                /\ nodes' = SequentialNext.nodes
                /\ edges' = SequentialNext.edges
          /\ last'.raised => (nodes' = nodes /\ edges' = edges)]_vars

\* Two pairs with one identifier and one key: the later pair's value is stored
C22_Witness ==
    /\ last.op = "upsert_nodes" /\ ~last.raised
    /\ last.args.ids = <<1, 1>>
    /\ last.args.data_list = <<[a |-> 1], [id |-> 1, a |-> 3]>>
    /\ Found(1) = [id |-> 1, a |-> 3]

----------------------------------------------------------------------------
\* The edges of a table that neither leave nor enter the node with an identifier
EdgesApartFrom(table, identifier) ==
    {x \in table : x.source # identifier /\ x.target # identifier}

(* C23: remove_node(A) leaves the rows of all nodes other than A, and the  *)
(* edges whose source and target are both other than A, as they were:      *)
(* find_node(B) returns after it what it returned before, for every B      *)
(* other than A.                                                           *)
C23_RemovalFrame ==
    [][last'.op = "remove_node" =>
          LET A == last'.args.id IN
          /\ {r \in nodes' : r.id # A} = {r \in nodes : r.id # A}
          /\ EdgesApartFrom(edges', A) = EdgesApartFrom(edges, A)
          /\ \A B \in Ids \ {A} : FoundNext(B) = Found(B)]_vars

\* A node and an edge of it were removed; another node and its own edge are stored
C23_Witness ==
    /\ last.op = "remove_node" /\ last.writes >= 2
    /\ \E B \in Ids \ {last.args.id} :
          /\ Found(B) # EmptyDict
          /\ \E x \in edges : x.source = B /\ x.target = B

----------------------------------------------------------------------------
\* The Store's operations that write, and those of the embedding layer that do
StoreWrites ==
    {"add_node", "add_nodes", "upsert_node", "upsert_nodes", "connect_nodes",
     "connect_many_nodes", "remove_node", "remove_nodes"}

EmbeddingWrites ==
    {"add_node_embedding", "add_node_embeddings", "add_edge_embedding",
     "add_edge_embeddings", "delete_node_embedding", "delete_edge_embedding"}

(* C24: no writing operation of the Store creates, changes or deletes an   *)
(* embedding row; the embedding tables change by the embedding layer's add *)
(* and delete operations only, so the embedding row of an entity is still  *)
(* stored as it was after upsert_node or remove_node of that entity.       *)
C24_StoreLeavesEmbeddings ==
    [][/\ last'.op \in StoreWrites =>
            /\ nodes_embedding' = nodes_embedding
            /\ relationship_embedding' = relationship_embedding
       /\ (nodes_embedding' # nodes_embedding
             \/ relationship_embedding' # relationship_embedding)
            => last'.op \in EmbeddingWrites]_vars

\* A node that has an embedding row was removed; its embedding row is stored
C24_Witness ==
    /\ last.op = "remove_node" /\ last.writes >= 1
    /\ Found(last.args.id) = EmptyDict
    /\ \E r \in nodes_embedding : r.owner = last.args.id

----------------------------------------------------------------------------
(* C25: delete_node_embedding(id) removes the embedding rows whose owner   *)
(* is the identifier id, all of them and no others, and raises nothing:    *)
(* when id owns no row the embedding tables are left as they were.         *)
C25_DeleteByOwner ==
    [][last'.op = "delete_node_embedding" =>
          /\ ~last'.raised
          /\ nodes_embedding' = {r \in nodes_embedding : r.owner # last'.args.id}
          /\ relationship_embedding' = relationship_embedding]_vars

====
